---- MODULE Spec2Model ----
(***************************************************************************)
(* The V-ZUG integration of mico-micic/core: the VZugPoller                *)
(* (homeassistant/components/vzug/vzug_poller.py), its callback registry   *)
(* and its refresh (async_poll), and the set-up of config entries and      *)
(* Sensor Views (vzug/__init__.py, vzug/sensor.py).                        *)
(*                                                                         *)
(* Spec          one VZugPoller driven by the host: overlapping            *)
(*               async_poll calls, register_callback and remove_callback.  *)
(*               The callbacks are what the repository registers, a        *)
(*               view's async_write_ha_state: they read the poller and     *)
(*               never call back into its registry.                        *)
(* SpecReentrant the same poller with callbacks that may call              *)
(*               register_callback or remove_callback while they are       *)
(*               being notified.                                           *)
(* SpecHass      config entries being set up and unloaded, and the Sensor  *)
(*               Views the sensor platform builds for them.                *)
(* SpecSensors   the states the views of one washing machine publish,      *)
(*               refresh after refresh.                                    *)
(* SpecFlow      the config flow's user step, submission after submission. *)
(* SpecCover     a command-line cover (command_line/cover.py) being        *)
(*               updated and moved.                                        *)
(***************************************************************************)
EXTENDS Integers, Sequences, FiniteSets, TLC

\* Bounds of the model: the callbacks the host may register, the async_poll
\* calls that may be suspended at the same time, the config entries.
MaxCallbacks == 2
MaxTasks == 2
MaxEntries == 2

CbIds == 1..MaxCallbacks
EntryIds == 1..MaxEntries

VARIABLES
    online,      \* VZugPoller._online
    pollerRefs,  \* VZugPoller._hostname and the Device Proxy in _device
    callbacks,   \* VZugPoller._callbacks: callback -> number of entries held
    inflight,    \* async_poll calls suspended at their await, in start order;
                 \* history, per call: stable, the callbacks registered when
                 \* it started and not removed since, and member, whether it
                 \* belongs to the cohort
    regHist,     \* history: what the host last asked for each callback
    lastResult,  \* history: the fetch result of the call that finished last
    justDone,    \* history: the async_poll call that finished in the last step,
                 \* and what the async_update awaiting a call did in it
    justCall,    \* history: the registry call the host made in the last step
    cohort,      \* history: a group of calls that were all suspended together
    hassData,    \* hass.data[DOMAIN]: the entries whose poller is stored
    entryPhase,  \* per config entry, where its set-up stands
    entryOnline, \* per config entry, its poller's _online
    devType,     \* per config entry, the device type of its poller's device
    views,       \* the Sensor Views handed to async_add_entities
    device,      \* the attributes of a washing machine's Device Proxy
    shown,       \* per view of that machine, the state it last published
    configEntries, \* the config entries the host created for the flow, in order
    flowResult,  \* what the last async_step_user returned; history: its input,
                 \* what the device did and the connections it attempted
    cover,       \* a CommandCover: its position (_state) and its configuration
    coverDone    \* history: the call the host last made on the cover

pollerVars == <<online, pollerRefs, callbacks, inflight, regHist, lastResult,
                justDone, justCall, cohort>>
hassVars == <<hassData, entryPhase, entryOnline, devType, views>>
sensorVars == <<device, shown>>
flowVars == <<configEntries, flowResult>>
coverVars == <<cover, coverDone>>
vars == <<online, pollerRefs, callbacks, inflight, regHist, lastResult, justDone,
          justCall, cohort, hassData, entryPhase, entryOnline, devType, views,
          device, shown, configEntries, flowResult, cover, coverDone>>

-----------------------------------------------------------------------------
\* Helpers

\* The sequences that list every element of S exactly once.
Perms(S) ==
    {s \in [1..Cardinality(S) -> S] : \A x \in S : \E i \in DOMAIN s : s[i] = x}

\* f[1] + ... + f[n]
RECURSIVE SumTo(_, _)
SumTo(f, n) == IF n = 0 THEN 0 ELSE f[n] + SumTo(f, n - 1)

RemoveAt(s, i) == SubSeq(s, 1, i - 1) \o SubSeq(s, i + 1, Len(s))

-----------------------------------------------------------------------------
\* VZugPoller (vzug_poller.py)

\* What a callback does to the registry while it is being notified: nothing,
\* or one register_callback / remove_callback call.
NoOp == [kind |-> "none", cb |-> 0]
Ops == {NoOp} \cup {[kind |-> k, cb |-> c] : k \in {"register", "remove"}, c \in CbIds}
\* async_write_ha_state publishes the view's state and availability; it makes
\* no call on the poller's registry.
PlainBehaviour == [c \in CbIds |-> NoOp]
\* One callback of the registry makes a registry call, the others are plain.
Behaviours == {[PlainBehaviour EXCEPT ![c] = op] : c \in CbIds, op \in Ops}

NoInvocations == [c \in CbIds |-> 0]

\* The orders in which a set of callbacks can be iterated: the order of a
\* Python set is unspecified.
Orders == [S \in SUBSET CbIds |-> Perms(S)]

\* self._callbacks is a set: the number of entries it holds for a callback is
\* 0 or 1.
Entries(reg) == {c \in CbIds : reg[c] > 0}
Used(reg) == SumTo(reg, MaxCallbacks)

\* Mutant: an activation that registers nothing.
RegisterNothing(reg, cb) == reg

\* Mutant: the registry as a list, callback appended on every call.
RegisterAppend(reg, cb) == [reg EXCEPT ![cb] = @ + 1]

\* self._callbacks.add(callback)
RegisterCallback(reg, cb) == [reg EXCEPT ![cb] = 1]

\* Mutant: the removal is lost.
RemoveNothing(reg, cb) == reg

\* self._callbacks.discard(callback)
RemoveCallback(reg, cb) == [reg EXCEPT ![cb] = 0]

\* Mutant: set.remove, which raises KeyError for an element that is not in
\* the set.
RemoveRaisesIfAbsent(reg, cb) == reg[cb] = 0

\* Whether remove_callback raises: set.discard never does.
RemoveRaises(reg, cb) == FALSE

\* Mutant: the device counts as online once any fetch has come back.
OnlineIgnoringResult(old, r) == TRUE

\* Mutant: hysteresis, a device that was online stays online.
OnlineSticky(old, r) == old \/ r

\* self._online = await self._device.load_all_information()
OnlineAfter(old, r) == r

\* Mutant: the callbacks are called before the flag is assigned.
FlagBeforeAssign(old, new) == old

\* The flag is assigned on line 39, before the loop of line 40 starts: a
\* callback that reads is_online reads the new value.
FlagAtNotify(old, new) == new

\* Mutant: callbacks are notified of successful fetches only.
NotifyOnSuccess(r) == r

\* The loop of lines 40-41 is not conditional on the fetch result.
NotifyAfter(r) == TRUE

\* Mutant: a failed fetch is raised to the caller.
RaiseOnFailure(r, loopRaised) == IF loopRaised \/ ~r THEN "raised" ELSE "returned"

\* How the call ends: load_all_information() reports failure by returning
\* False, which is assigned like any result; only an exception of the loop of
\* lines 40-41 leaves async_poll by raising.
PollOutcome(r, loopRaised) == IF loopRaised THEN "raised" ELSE "returned"

\* Mutant: a failed fetch is tried once more before the call gives up.
FetchesWithRetry(r) == IF r THEN 1 ELSE 2

\* The number of times one async_poll call has invoked
\* load_all_information() when it ends, its fetch having returned r: line 39
\* is the only invocation and stands in no loop.
FetchesPerCall(r) == 1

\* Mutant: single flight, a call is let in only when none is suspended.
SingleFlight(fl) == fl = <<>>

\* if self._device is not None: __init__ always sets the device, and nothing
\* else guards the body of async_poll.
CanEnterPoll(fl) == TRUE

\* VZugPoller.is_online
IsOnline == online

\* Mutant: the view keeps Entity's default availability, which is True.
AvailableByDefault(v) == TRUE

\* SensorBase.available of view v, inherited by every view class: it forwards
\* to the poller's is_online each time it is read.
Available(v) == IsOnline

\* History of the host's calls, per callback: never registered, registered
\* by the latest call, or removed by the latest call after a registration.
HistRegister(h, cb) == [h EXCEPT ![cb] = "registered"]
HistRemove(h, cb) ==
    [h EXCEPT ![cb] = IF @ = "never" THEN "never" ELSE "removed"]
Registered(h) == {c \in CbIds : h[c] = "registered"}

ApplyOp(reg, op) ==
    CASE op.kind = "register" -> RegisterCallback(reg, op.cb)
      [] op.kind = "remove" -> RemoveCallback(reg, op.cb)
      [] OTHER -> reg

ApplyHist(h, op) ==
    CASE op.kind = "register" -> HistRegister(h, op.cb)
      [] op.kind = "remove" -> HistRemove(h, op.cb)
      [] OTHER -> h

\* for callback in self._callbacks: callback()
\* A set iterator remembers the size of the set when it was created; each
\* next() first compares it with the present size and raises RuntimeError
\* ("Set changed size during iteration") when they differ, also on the next()
\* that would have ended the loop. A callback makes at most one registry call,
\* so the set cannot change without changing size.
RECURSIVE Iterate(_, _, _, _, _, _)
Iterate(order, i, used, beh, flag, acc) ==
    IF Used(acc.reg) # used THEN [acc EXCEPT !.raised = TRUE]
    ELSE IF i > Len(order) THEN acc
    ELSE LET cb == order[i]
             op == beh[cb]
         IN Iterate(order, i + 1, used, beh, flag,
                [reg |-> ApplyOp(acc.reg, op),
                 hist |-> ApplyHist(acc.hist, op),
                 invoked |-> [acc.invoked EXCEPT ![cb] = @ + acc.reg[cb]],
                 observed |-> acc.observed \cup {flag},
                 removed |-> IF op.kind = "remove"
                             THEN acc.removed \cup {op.cb}
                             ELSE acc.removed,
                 raised |-> FALSE])

NotNotified(reg, hist) ==
    [reg |-> reg, hist |-> hist, invoked |-> NoInvocations, observed |-> {},
     removed |-> {}, raised |-> FALSE]

FanOut(order, reg, hist, beh, flag) ==
    Iterate(order, 1, Used(reg), beh, flag, NotNotified(reg, hist))

\* Mutant: async_update starts the refresh as a task of its own and returns
\* without awaiting it.
DetachedUpdate(poll) == IF poll = "suspended" THEN "returned" ELSE "none"

\* VZugDevice.async_update: await self._poller.async_poll(). What the
\* async_update that made an async_poll call does in the step that leaves the
\* call as given: while the call is suspended at its await so is
\* async_update; it ends when, and the way, the call ends.
UpdateOutcome(poll) == IF poll = "suspended" THEN "none" ELSE poll

NoneDone ==
    [kind |-> "none", result |-> FALSE, invoked |-> NoInvocations,
     observed |-> {}, stable |-> {}, atNotify |-> {}, removed |-> {},
     ooo |-> FALSE, prev |-> {}, update |-> "none", fetches |-> 0]

NoCall ==
    [kind |-> "none", cb |-> 0, present |-> FALSE, before |-> NoInvocations,
     raised |-> FALSE]

NoCohort == [size |-> 0, cbs |-> {}, hits |-> NoInvocations]

Members(fl) == {i \in DOMAIN fl : fl[i].member}

\* A finished cohort is kept for one step only.
CohortKept == IF Members(inflight) = {} THEN NoCohort ELSE cohort

\* Mutant: the poller is marked offline for as long as a fetch is pending.
StartPollOffline ==
    /\ Len(inflight) < MaxTasks
    /\ inflight' = Append(inflight,
                          [stable |-> Registered(regHist), member |-> FALSE])
    /\ online' = FALSE
    /\ justDone' = NoneDone
    /\ justCall' = NoCall
    /\ cohort' = CohortKept
    /\ UNCHANGED <<callbacks, regHist, lastResult>>
    /\ UNCHANGED <<pollerRefs, hassVars, sensorVars, flowVars, coverVars>>

\* async_poll, up to its await: the call enters, load_all_information() is
\* called and the coroutine is suspended. The caller is the Device View's
\* async_update (or the set-up of the config entry, which awaits it likewise).
StartPoll ==
    /\ Len(inflight) < MaxTasks
    /\ CanEnterPoll(inflight)
    /\ inflight' = Append(inflight,
                          [stable |-> Registered(regHist), member |-> FALSE])
    /\ justDone' = [NoneDone EXCEPT !.update = UpdateOutcome("suspended")]
    /\ justCall' = NoCall
    /\ cohort' = CohortKept
    /\ UNCHANGED <<online, callbacks, regHist, lastResult>>
    /\ UNCHANGED <<pollerRefs, hassVars, sensorVars, flowVars, coverVars>>

\* async_poll, from its await on: the fetch of the i-th suspended call returns
\* r, the flag is assigned, every callback is called, the call returns (or the
\* loop raises). Nothing else runs in between: there is no await after line 39.
FinishPoll(i, r, order, beh) ==
    /\ i \in DOMAIN inflight
    /\ \E newOnline \in {OnlineAfter(online, r)} :
       \E fan \in {IF NotifyAfter(r)
                   THEN FanOut(order, callbacks, regHist, beh,
                               FlagAtNotify(online, newOnline))
                   ELSE NotNotified(callbacks, regHist)} :
       LET
           \* With no cohort under way, the calls suspended now form one:
           \* all of them started before any of their fetches returned.
           fresh == Members(inflight) = {}
           size == IF fresh THEN Len(inflight) ELSE cohort.size
           cbs == IF fresh
                  THEN {c \in CbIds : \A u \in DOMAIN inflight : c \in inflight[u].stable}
                  ELSE cohort.cbs
           hits == IF fresh THEN NoInvocations ELSE cohort.hits
           counted == fresh \/ inflight[i].member
           keep == cbs \ fan.removed
           rest == RemoveAt(inflight, i)
       IN /\ online' = newOnline
          /\ callbacks' = fan.reg
          /\ regHist' = fan.hist
          /\ inflight' = [u \in DOMAIN rest |->
                            [stable |-> rest[u].stable \ fan.removed,
                             member |-> fresh \/ rest[u].member]]
          /\ lastResult' = {r}
          /\ justDone' = [kind |-> PollOutcome(r, fan.raised),
                          result |-> r,
                          invoked |-> fan.invoked,
                          observed |-> fan.observed,
                          stable |-> inflight[i].stable,
                          atNotify |-> Registered(regHist),
                          removed |-> fan.removed,
                          ooo |-> i # 1,
                          prev |-> lastResult,
                          update |-> UpdateOutcome(PollOutcome(r, fan.raised)),
                          fetches |-> FetchesPerCall(r)]
          /\ cohort' = [size |-> size,
                        cbs |-> keep,
                        hits |-> [c \in CbIds |->
                                    IF c \notin keep THEN 0
                                    ELSE IF counted THEN hits[c] + fan.invoked[c]
                                    ELSE hits[c]]]
    /\ justCall' = NoCall
    /\ UNCHANGED <<pollerRefs, hassVars, sensorVars, flowVars, coverVars>>

\* register_callback(callback), called outside a notification: the host
\* activates a view, whose async_added_to_hass registers the view's
\* async_write_ha_state (sensor.py, line 112).
Register(cb) ==
    /\ callbacks' = RegisterCallback(callbacks, cb)
    /\ regHist' = HistRegister(regHist, cb)
    /\ justCall' = [kind |-> "register", cb |-> cb,
                    present |-> regHist[cb] = "registered", before |-> callbacks,
                    raised |-> FALSE]
    /\ justDone' = NoneDone
    /\ cohort' = CohortKept
    /\ UNCHANGED <<online, inflight, lastResult>>
    /\ UNCHANGED <<pollerRefs, hassVars, sensorVars, flowVars, coverVars>>

\* remove_callback(callback), called outside a notification: the host
\* deactivates a view, whose async_will_remove_from_hass removes the view's
\* async_write_ha_state (sensor.py, line 116).
Remove(cb) ==
    /\ callbacks' = RemoveCallback(callbacks, cb)
    /\ regHist' = HistRemove(regHist, cb)
    /\ inflight' = [u \in DOMAIN inflight |->
                      [inflight[u] EXCEPT !.stable = @ \ {cb}]]
    /\ justCall' = [kind |-> "remove", cb |-> cb,
                    present |-> regHist[cb] = "registered", before |-> callbacks,
                    raised |-> RemoveRaises(callbacks, cb)]
    /\ justDone' = NoneDone
    /\ cohort' = [CohortKept EXCEPT !.cbs = @ \ {cb}, !.hits[cb] = 0]
    /\ UNCHANGED <<online, lastResult>>
    /\ UNCHANGED <<pollerRefs, hassVars, sensorVars, flowVars, coverVars>>

\* Mutant: reading a view marks the poller offline until the next refresh.
ReadViewResetting(v) ==
    /\ online' = FALSE
    /\ justCall' = [NoCall EXCEPT !.kind = "read", !.cb = v]
    /\ justDone' = NoneDone
    /\ cohort' = CohortKept
    /\ UNCHANGED <<callbacks, inflight, regHist, lastResult>>
    /\ UNCHANGED <<pollerRefs, hassVars, sensorVars, flowVars, coverVars>>

\* The host reads view v: its state, available, icon or device_info
\* property. Each returns a value computed from the poller's flag, its
\* hostname and the Device Proxy's attributes, and assigns nothing.
ReadView(v) ==
    /\ justCall' = [NoCall EXCEPT !.kind = "read", !.cb = v]
    /\ justDone' = NoneDone
    /\ cohort' = CohortKept
    /\ UNCHANGED <<online, callbacks, inflight, regHist, lastResult>>
    /\ UNCHANGED <<pollerRefs, hassVars, sensorVars, flowVars, coverVars>>

-----------------------------------------------------------------------------
\* The state each view class of sensor.py publishes, for one washing machine

\* The device types a config entry can carry (DEVICE_TYPE_CONF).
DeviceTypes == {"unknown", "washing_machine", "dryer"}

\* The views async_setup_entry of the sensor platform builds for one poller:
\* the VZugDevice, and for a washing machine the eight sensors of lines 56-63,
\* each named by the suffix of its unique_id.
WashingMachineKeys ==
    {"program", "program_end", "total_water_consumption",
     "avg_water_consumption", "total_power_consumption",
     "avg_power_consumption", "optidos_A", "optidos_B"}
SensorKeys == {"machine"} \cup WashingMachineKeys
KeysFor(type) ==
    IF type = "washing_machine" THEN {"machine"} \cup WashingMachineKeys
    ELSE {"machine"}

\* A published state is a text, a number, or the text of a time of day given
\* by its four digits (hour, hour, minute, minute around the colon).
Text(s) == [text |-> s]
Number(n) == [number |-> n]
TimeText(h1, h2, m1, m2) == [hhmm |-> <<h1, h2, m1, m2>>]

\* Values load_all_information() may leave in the Device Proxy. Consumptions
\* are in tenths of a litre and of a kWh; of get_date_time_end(timezone) the
\* hour and the minute, the fields that "%H:%M" reads.
Programs == {"", "Testing at 60°"}
OptiDosA == {"", "full", "empty"}
OptiDosB == {"", "full", "empty"}
EndTimes == {[hour |-> h, minute |-> m] : h \in {4, 23}, m \in {5, 42}}
Consumptions ==
    {[water_total |-> 30000, water_avg |-> 555, power_total |-> 5005, power_avg |-> 5],
     [water_total |-> 30011, water_avg |-> 556, power_total |-> 5010, power_avg |-> 6]}
Devices ==
    [is_active : BOOLEAN, program : Programs, date_time_end : EndTimes,
     optidos_a_status : OptiDosA, optidos_b_status : OptiDosB,
     consumption : Consumptions]

\* The washing machine of the repository's tests.
MockWashingMachine ==
    [is_active |-> TRUE, program |-> "Testing at 60°",
     date_time_end |-> [hour |-> 4, minute |-> 42],
     optidos_a_status |-> "full", optidos_b_status |-> "empty",
     consumption |-> [water_total |-> 30000, water_avg |-> 555,
                      power_total |-> 5005, power_avg |-> 5]]

\* Mutant: the two texts the wrong way round.
StateTextSwapped(active) == IF active THEN "inactive" ELSE "active"

\* STATE_TEXT = {True: "active", False: "inactive"}
StateText(active) == IF active THEN "active" ELSE "inactive"

\* VZugDevice.state
DeviceState(d) == Text(StateText(d.is_active))

\* Mutant: the total and the average the wrong way round.
WaterStateSwapped(d, avg_total) ==
    Number(IF avg_total = "TOTAL" THEN d.consumption.water_avg
           ELSE d.consumption.water_total)

\* WaterConsumptionSensor.state
WaterState(d, avg_total) ==
    Number(IF avg_total = "TOTAL" THEN d.consumption.water_total
           ELSE d.consumption.water_avg)

\* PowerConsumptionSensor.state
PowerState(d, avg_total) ==
    Number(IF avg_total = "TOTAL" THEN d.consumption.power_total
           ELSE d.consumption.power_avg)

\* ProgramSensor.state
ProgramState(d) == IF d.program = "" THEN Text("-") ELSE Text(d.program)

\* datetime.strftime(TIME_STR_FORMAT), TIME_STR_FORMAT = "%H:%M": the hour of
\* the 24-hour clock and the minute, each as two digits.
StrfTime(t) ==
    TimeText(t.hour \div 10, t.hour % 10, t.minute \div 10, t.minute % 10)

\* ProgramEndSensor._to_time_formatted, returned by ProgramEndSensor.state
ProgramEndState(d) ==
    IF d.is_active THEN StrfTime(d.date_time_end) ELSE Text("-")

\* OptiDosSensor.state
OptiDosState(d, letter) ==
    Text(IF letter = "A" THEN d.optidos_a_status ELSE d.optidos_b_status)

\* The attribute of the Device Proxy that the state property of a washing
\* machine's sensor reads; the end of the program is a date and time.
Attribute(key, d) ==
    CASE key = "program" -> Text(d.program)
      [] key = "program_end" -> d.date_time_end
      [] key = "total_water_consumption" -> Number(d.consumption.water_total)
      [] key = "avg_water_consumption" -> Number(d.consumption.water_avg)
      [] key = "total_power_consumption" -> Number(d.consumption.power_total)
      [] key = "avg_power_consumption" -> Number(d.consumption.power_avg)
      [] key = "optidos_A" -> Text(d.optidos_a_status)
      [] key = "optidos_B" -> Text(d.optidos_b_status)

\* The state property of the view that sensor.async_setup_entry builds with
\* the given unique_id suffix.
State(key, d) ==
    CASE key = "machine" -> DeviceState(d)
      [] key = "program" -> ProgramState(d)
      [] key = "program_end" -> ProgramEndState(d)
      [] key = "total_water_consumption" -> WaterState(d, "TOTAL")
      [] key = "avg_water_consumption" -> WaterState(d, "AVG")
      [] key = "total_power_consumption" -> PowerState(d, "TOTAL")
      [] key = "avg_power_consumption" -> PowerState(d, "AVG")
      [] key = "optidos_A" -> OptiDosState(d, "A")
      [] key = "optidos_B" -> OptiDosState(d, "B")

\* async_write_ha_state of every view of the machine: the host reads the
\* view's state property.
WriteHaState(d) == [k \in SensorKeys |-> State(k, d)]

\* One refresh of the machine's poller with every view active: the fetch
\* leaves new attributes in the Device Proxy, then async_poll calls every
\* view's async_write_ha_state.
Refresh(d) ==
    /\ device' = d
    /\ shown' = WriteHaState(d)
    /\ UNCHANGED <<pollerVars, hassVars, flowVars, coverVars>>

\* The views of the machine have been added to the host, which wrote their
\* states when it added them.
SensorsAdded ==
    /\ device = MockWashingMachine
    /\ shown = WriteHaState(MockWashingMachine)

NextSensors == \E d \in Devices : Refresh(d)

-----------------------------------------------------------------------------
\* The config flow (vzug/config_flow.py)

\* A dict is the set of its (key, value) pairs.
Get(dict, key) == CHOOSE v \in {kv[2] : kv \in {x \in dict : x[1] = key}} : TRUE
Put(dict, key, value) == {kv \in dict : kv[1] # key} \cup {<<key, value>>}

\* What the user may submit: the host is required, user name and password
\* are optional.
Hosts == {"e", "1.1.1.1", "2.2.2.2"}
Credentials ==
    {{}, {<<"username", "test-username">>, <<"password", "test-password">>}}
UserInputs == {{<<"host", h>>} \cup c : h \in Hosts, c \in Credentials}

\* What the BasicDevice at the host does when load_device_information() is
\* awaited: it returns True, having read the device's name and type; it
\* returns False with an error_exception that is an authentication problem
\* ("auth") or is not ("conn"); or the call raises.
FlowDevices ==
    {[load |-> "ok", device_name |-> n, device_type |-> t] :
        n \in {"", "MockDevice Name"}, t \in DeviceTypes}
    \cup {[load |-> l, device_name |-> "", device_type |-> "unknown"] :
             l \in {"auth", "conn", "raises"}}

\* Mutant: any host is taken to the device.
AnyHost(host) == FALSE

\* if len(host) < 3: raise InvalidHost
HostTooShort(host) == Len(host) < 3

\* validate_input: the exception it raises ("none" when it returns), the
\* dict it returns, and the number of connections it attempted
\* (BasicDevice(host) and its load_device_information()).
ValidateInput(data, dev) ==
    IF HostTooShort(Get(data, "host"))
    THEN [raised |-> "InvalidHost", info |-> {}, connects |-> 0]
    ELSE CASE dev.load = "ok" ->
                [raised |-> "none",
                 info |-> {<<"title", dev.device_name>>,
                           <<"DEVICE_TYPE_CONF", dev.device_type>>},
                 connects |-> 1]
           [] dev.load = "auth" ->
                [raised |-> "InvalidAuth", info |-> {}, connects |-> 1]
           [] dev.load = "conn" ->
                [raised |-> "CannotConnect", info |-> {}, connects |-> 1]
           [] OTHER ->
                [raised |-> "Exception", info |-> {}, connects |-> 1]

\* Mutant: an authentication problem is reported like any failed connection.
ErrorsAllCannotConnect(raised) ==
    CASE raised = "InvalidHost" -> {<<"host", "cannot_connect">>}
      [] raised = "Exception" -> {<<"base", "unknown">>}
      [] OTHER -> {<<"base", "cannot_connect">>}

\* The except clauses of async_step_user.
ErrorsFor(raised) ==
    CASE raised = "CannotConnect" -> {<<"base", "cannot_connect">>}
      [] raised = "InvalidHost" -> {<<"host", "cannot_connect">>}
      [] raised = "InvalidAuth" -> {<<"base", "invalid_auth">>}
      [] OTHER -> {<<"base", "unknown">>}

\* Mutant: the entry keeps the user input as it was submitted.
DataAsSubmitted(user_input, info) == user_input

\* user_input[DEVICE_TYPE_CONF] = info[DEVICE_TYPE_CONF]
EntryData(user_input, info) ==
    Put(user_input, "DEVICE_TYPE_CONF", Get(info, "DEVICE_TYPE_CONF"))

\* self._async_abort_entries_match({CONF_HOST: host})
EntriesMatch(entries, host) ==
    \E i \in DOMAIN entries : Get(entries[i].data, "host") = host

NoFlowResult ==
    [type |-> "none", errors |-> {}, title |-> "", data |-> {},
     submitted |-> FALSE, input |-> {}, load |-> "none", connects |-> 0,
     device_name |-> "", device_type |-> "unknown"]

\* ConfigFlow.async_step_user(user_input), with the host's handling of the
\* result: it creates the config entry of a create_entry result.
StepUser(submitted, user_input, dev) ==
    IF ~submitted
    THEN /\ flowResult' = [NoFlowResult EXCEPT !.type = "form"]
         /\ UNCHANGED configEntries
    ELSE IF EntriesMatch(configEntries, Get(user_input, "host"))
    THEN /\ flowResult' = [NoFlowResult EXCEPT !.type = "abort",
                               !.submitted = TRUE, !.input = user_input]
         /\ UNCHANGED configEntries
    ELSE \E v \in {ValidateInput(user_input, dev)} :
         \E attempt \in {[submitted |-> TRUE, input |-> user_input,
                           load |-> IF v.connects = 0 THEN "none" ELSE dev.load,
                           connects |-> v.connects,
                           device_name |-> IF v.connects = 0 THEN "" ELSE dev.device_name,
                           device_type |-> IF v.connects = 0 THEN "unknown" ELSE dev.device_type]} :
            IF v.raised = "none"
            THEN /\ flowResult' =
                       [type |-> "create_entry", errors |-> {},
                        title |-> Get(v.info, "title"),
                        data |-> EntryData(user_input, v.info),
                        submitted |-> attempt.submitted, input |-> attempt.input,
                        load |-> attempt.load, connects |-> attempt.connects,
                        device_name |-> attempt.device_name,
                        device_type |-> attempt.device_type]
                 /\ configEntries' =
                       Append(configEntries,
                              [title |-> Get(v.info, "title"),
                               data |-> EntryData(user_input, v.info)])
            ELSE /\ flowResult' =
                       [type |-> "form", errors |-> ErrorsFor(v.raised),
                        title |-> "", data |-> {},
                        submitted |-> attempt.submitted, input |-> attempt.input,
                        load |-> attempt.load, connects |-> attempt.connects,
                        device_name |-> attempt.device_name,
                        device_type |-> attempt.device_type]
                 /\ UNCHANGED configEntries

\* No flow has been started and no entry exists.
FlowIdle ==
    /\ configEntries = <<>>
    /\ flowResult = NoFlowResult

NextFlow ==
    \E submitted \in BOOLEAN, user_input \in UserInputs, dev \in FlowDevices :
        /\ StepUser(submitted, user_input, dev)
        /\ UNCHANGED <<pollerVars, hassVars, sensorVars, coverVars>>

-----------------------------------------------------------------------------
\* The command-line cover (homeassistant/components/command_line/cover.py)

\* Python values the cover handles: None, a str given by its characters, an
\* int, a bool.
PyNone == [none |-> TRUE]
PyStr(chars) == [str |-> chars]
PyInt(n) == [int |-> n]
PyBool(b) == [bool |-> b]

\* Python's truth value of None or of a str: "if self._command_state",
\* "if payload".
Truthy(x) == x # PyNone /\ x.str # <<>>

\* str(x) of None or of a str.
Str(x) == IF x = PyNone THEN PyStr(<<"N", "o", "n", "e">>) ELSE x

\* What a state command may print, and what _query_state returns: the
\* command's output, or None when check_output_or_log could not run it.
Outputs ==
    {<<>>, <<"0">>, <<"4", "2">>, <<"1", "0", "0">>, <<"-", "5">>,
     <<" ", "7", "\n">>, <<"a", "b", "c">>, <<"4", ".", "2">>}
QueryResults == {PyStr(o) : o \in Outputs} \cup {PyNone}

\* What async_render_with_possible_json_value(payload, None) returns: the
\* text the template renders, or the error value None.
Rendered == {PyStr(o) : o \in Outputs} \cup {PyNone}

\* int(text): surrounding whitespace is dropped, one sign is allowed, and
\* what is left must be decimal digits; anything else raises ValueError.
Whitespace == {" ", "\n"}
Digits == <<"0", "1", "2", "3", "4", "5", "6", "7", "8", "9">>
DigitValue(c) == (CHOOSE i \in DOMAIN Digits : Digits[i] = c) - 1
IsDigits(s) == s # <<>> /\ \A i \in DOMAIN s : \E j \in DOMAIN Digits : Digits[j] = s[i]
RECURSIVE LStrip(_)
LStrip(s) == IF s # <<>> /\ Head(s) \in Whitespace THEN LStrip(Tail(s)) ELSE s
RECURSIVE RStrip(_)
RStrip(s) ==
    IF s # <<>> /\ s[Len(s)] \in Whitespace
    THEN RStrip(SubSeq(s, 1, Len(s) - 1)) ELSE s
RECURSIVE DigitsValue(_)
DigitsValue(s) ==
    IF s = <<>> THEN 0
    ELSE 10 * DigitsValue(SubSeq(s, 1, Len(s) - 1)) + DigitValue(s[Len(s)])

\* self._state = int(payload)
IntOf(chars) ==
    LET t == RStrip(LStrip(chars))
        signed == t # <<>> /\ Head(t) \in {"+", "-"}
        body == IF signed THEN Tail(t) ELSE t
    IN  IF IsDigits(body)
        THEN [raised |-> "none",
              value |-> IF signed /\ Head(t) = "-"
                        THEN PyInt(0 - DigitsValue(body))
                        ELSE PyInt(DigitsValue(body))]
        ELSE [raised |-> "ValueError", value |-> PyNone]

\* The configurations a cover is built from: command_state absent, empty or a
\* command; value_template absent (FALSE) or a Template (TRUE).
CoverConfigs ==
    [command_state : {PyNone, PyStr(<<>>), PyStr(<<"s">>)},
     value_template : BOOLEAN]

\* CommandCover.__init__
NewCover(cfg) ==
    [state |-> PyNone,
     command_state |-> cfg.command_state,
     value_template |-> cfg.value_template,
     should_poll |-> Truthy(cfg.command_state)]

\* CommandCover.current_cover_position
CurrentCoverPosition == cover.state

\* CommandCover.is_closed
IsClosed ==
    IF CurrentCoverPosition # PyNone
    THEN PyBool(CurrentCoverPosition = PyInt(0))
    ELSE PyNone

NoCoverCall ==
    [kind |-> "none", raised |-> "none", queried |-> FALSE, result |-> PyNone,
     payload |-> PyNone, before |-> PyNone, success |-> FALSE]

\* async_setup_platform: the platform builds the cover of one configuration.
SetupPlatform(cfg) ==
    /\ cover' = NewCover(cfg)
    /\ coverDone' = [NoCoverCall EXCEPT !.kind = "setup"]

\* CommandCover.async_update. result is what _query_state returns in the
\* executor, rendered what the template makes of the payload. The position is
\* reset before int(payload) is evaluated, so a ValueError leaves it None.
AsyncUpdate(result, rendered) ==
    IF ~Truthy(cover.command_state)
    THEN /\ UNCHANGED cover
         /\ coverDone' = [NoCoverCall EXCEPT !.kind = "update",
                              !.before = cover.state]
    ELSE \E payload \in {IF cover.value_template THEN rendered ELSE Str(result)} :
         \E parsed \in {IF Truthy(payload) THEN IntOf(payload.str)
                        ELSE [raised |-> "none", value |-> PyNone]} :
            /\ cover' = [cover EXCEPT !.state = parsed.value]
            /\ coverDone' = [NoCoverCall EXCEPT !.kind = "update",
                                 !.raised = parsed.raised, !.queried = TRUE,
                                 !.result = result, !.payload = payload,
                                 !.before = cover.state]

\* CommandCover._move_cover: the command's return code decides success; the
\* position is not touched.
MoveCover(kind, returncode) ==
    /\ UNCHANGED cover
    /\ coverDone' = [NoCoverCall EXCEPT !.kind = kind,
                         !.success = (returncode = 0), !.before = cover.state]

ReturnCodes == {0, 1}
OpenCover(returncode) == MoveCover("open", returncode)
CloseCover(returncode) == MoveCover("close", returncode)
StopCover(returncode) == MoveCover("stop", returncode)

\* The platform has built a cover that polls its state command.
CoverAdded ==
    /\ cover = NewCover([command_state |-> PyStr(<<"s">>), value_template |-> FALSE])
    /\ coverDone = NoCoverCall

NextCover ==
    \/ \E cfg \in CoverConfigs :
           SetupPlatform(cfg) /\ UNCHANGED <<pollerVars, hassVars, sensorVars, flowVars>>
    \/ \E result \in QueryResults, rendered \in Rendered :
           AsyncUpdate(result, rendered)
           /\ UNCHANGED <<pollerVars, hassVars, sensorVars, flowVars>>
    \/ \E rc \in ReturnCodes :
           OpenCover(rc) /\ UNCHANGED <<pollerVars, hassVars, sensorVars, flowVars>>
    \/ \E rc \in ReturnCodes :
           CloseCover(rc) /\ UNCHANGED <<pollerVars, hassVars, sensorVars, flowVars>>
    \/ \E rc \in ReturnCodes :
           StopCover(rc) /\ UNCHANGED <<pollerVars, hassVars, sensorVars, flowVars>>

-----------------------------------------------------------------------------
\* Mutant: a new poller counts as online until a fetch says otherwise.
PollerInitOnline ==
    /\ online = TRUE
    /\ pollerRefs = [hostname |-> "1.1.1.1", device |-> "WashingMachine"]
    /\ callbacks = NoInvocations
    /\ inflight = <<>>
    /\ regHist = [c \in CbIds |-> "never"]
    /\ lastResult = {}
    /\ justDone = NoneDone
    /\ justCall = NoCall
    /\ cohort = NoCohort

\* VZugPoller.__init__
PollerInit ==
    /\ online = FALSE
    /\ pollerRefs = [hostname |-> "1.1.1.1", device |-> "WashingMachine"]
    /\ callbacks = NoInvocations
    /\ inflight = <<>>
    /\ regHist = [c \in CbIds |-> "never"]
    /\ lastResult = {}
    /\ justDone = NoneDone
    /\ justCall = NoCall
    /\ cohort = NoCohort

HassIdle ==
    /\ hassData = {}
    /\ entryPhase = [e \in EntryIds |-> "absent"]
    /\ entryOnline = [e \in EntryIds |-> FALSE]
    /\ devType = [e \in EntryIds |-> "unknown"]
    /\ views = {}

Init == PollerInit /\ HassIdle /\ SensorsAdded /\ FlowIdle /\ CoverAdded

Next ==
    \/ StartPoll
    \/ \E i \in DOMAIN inflight, r \in BOOLEAN, order \in Orders[Entries(callbacks)] :
           FinishPoll(i, r, order, PlainBehaviour)
    \/ \E cb \in CbIds : Register(cb)
    \/ \E cb \in CbIds : Remove(cb)
    \/ \E v \in CbIds : ReadView(v)

Spec == Init /\ [][Next]_vars

NextReentrant ==
    \/ StartPoll
    \/ \E i \in DOMAIN inflight, r \in BOOLEAN, order \in Orders[Entries(callbacks)],
          beh \in Behaviours :
           FinishPoll(i, r, order, beh)
    \/ \E cb \in CbIds : Register(cb)
    \/ \E cb \in CbIds : Remove(cb)
    \/ \E v \in CbIds : ReadView(v)

SpecReentrant == Init /\ [][NextReentrant]_vars

SpecSensors == Init /\ [][NextSensors]_vars

SpecFlow == Init /\ [][NextFlow]_vars

SpecCover == Init /\ [][NextCover]_vars

-----------------------------------------------------------------------------
\* Config entries and Sensor Views (vzug/__init__.py, vzug/sensor.py)

\* for poller in hass.data[DOMAIN].values(): the pollers the sensor platform
\* builds views for when it is set up for config entry e.
PollersViewed(e, data) == data

\* self.device.uuid for the poller of entry p: every device has a UUID of its
\* own.
Uuid(p) == p

\* SensorBase._entity_id_prefix: f"{DOMAIN}.{device_type}.{uuid}", a string
\* given by its parts.
EntityIdPrefix(type, uuid) == <<"DOMAIN", ".", type, ".", uuid>>

\* Mutant: the unique_id is prefixed with the id of the config entry whose
\* platform set-up builds the view.
IdentifiersPerCall(call, type, uuid, key) ==
    IF key = "machine"
    THEN [entity_id |-> EntityIdPrefix(type, uuid),
          unique_id |-> <<call, "_", uuid, "_", "machine">>]
    ELSE [entity_id |-> EntityIdPrefix(type, uuid) \o <<".", key>>,
          unique_id |-> <<call, "_", uuid, "_", key>>]

\* SensorBase.__init__ sets entity_id to f"{prefix}.{id_suffix}" and the
\* unique_id to f"{uuid}_{id_suffix}"; VZugDevice.__init__ then replaces them
\* by the prefix and by f"{uuid}_machine". Nothing of the construction call
\* (the platform set-up that makes it) enters either.
Identifiers(call, type, uuid, key) ==
    IF key = "machine"
    THEN [entity_id |-> EntityIdPrefix(type, uuid),
          unique_id |-> <<uuid, "_", "machine">>]
    ELSE [entity_id |-> EntityIdPrefix(type, uuid) \o <<".", key>>,
          unique_id |-> <<uuid, "_", key>>]

\* The view with id suffix k that the platform set-up of entry e constructs
\* for poller p, whose device has the given type.
View(e, p, k, type) ==
    [by |-> e, poller |-> p, key |-> k, type |-> type,
     entity_id |-> Identifiers(e, type, Uuid(p), k).entity_id,
     unique_id |-> Identifiers(e, type, Uuid(p), k).unique_id]

\* The sensors list passed to async_add_entities by the platform of entry e.
SensorsBuilt(e, data, types) ==
    UNION {{View(e, p, k, types[p]) : k \in KeysFor(types[p])} :
              p \in PollersViewed(e, data)}

\* __init__.async_setup_entry up to its await: the poller is constructed
\* (_online False, no callbacks) and the first poll is started.
SetupEntryStart(e, type) ==
    /\ entryPhase[e] = "absent"
    /\ entryPhase' = [entryPhase EXCEPT ![e] = "polling"]
    /\ entryOnline' = [entryOnline EXCEPT ![e] = FALSE]
    /\ devType' = [devType EXCEPT ![e] = type]
    /\ UNCHANGED <<hassData, views>>
    /\ UNCHANGED <<pollerVars, sensorVars, flowVars, coverVars>>

\* __init__.async_setup_entry from its await on: the first poll returns r (the
\* new poller has no callback to notify), the poller is stored in
\* hass.data[DOMAIN], the platform set-up is scheduled and True is returned.
SetupEntryFinish(e, r) ==
    /\ entryPhase[e] = "polling"
    /\ entryOnline' = [entryOnline EXCEPT ![e] = OnlineAfter(entryOnline[e], r)]
    /\ hassData' = hassData \cup {e}
    /\ entryPhase' = [entryPhase EXCEPT ![e] = "stored"]
    /\ UNCHANGED <<devType, views>>
    /\ UNCHANGED <<pollerVars, sensorVars, flowVars, coverVars>>

\* sensor.async_setup_entry for config entry e.
PlatformSetup(e) ==
    /\ entryPhase[e] = "stored"
    /\ views' = views \cup SensorsBuilt(e, hassData, devType)
    /\ entryPhase' = [entryPhase EXCEPT ![e] = "loaded"]
    /\ UNCHANGED <<hassData, entryOnline, devType>>
    /\ UNCHANGED <<pollerVars, sensorVars, flowVars, coverVars>>

\* Mutant: the poller is popped whatever the platform unload reported.
PopsAlways(unload_ok) == TRUE

\* if unload_ok: hass.data[DOMAIN].pop(entry.entry_id)
PopsPoller(unload_ok) == unload_ok

\* __init__.async_unload_entry: the host unloads the platform of entry e,
\* which removes the entities that platform added, and reports unload_ok; the
\* poller is popped when it is true.
UnloadEntry(e, unload_ok) ==
    /\ entryPhase[e] = "loaded"
    /\ hassData' = IF PopsPoller(unload_ok) THEN hassData \ {e} ELSE hassData
    /\ IF unload_ok
       THEN /\ views' = {v \in views : v.by # e}
            /\ entryPhase' = [entryPhase EXCEPT ![e] = "absent"]
            /\ entryOnline' = [entryOnline EXCEPT ![e] = FALSE]
            /\ devType' = [devType EXCEPT ![e] = "unknown"]
       ELSE UNCHANGED <<views, entryPhase, entryOnline, devType>>
    /\ UNCHANGED <<pollerVars, sensorVars, flowVars, coverVars>>

NextHass ==
    \/ \E e \in EntryIds, type \in DeviceTypes : SetupEntryStart(e, type)
    \/ \E e \in EntryIds, r \in BOOLEAN : SetupEntryFinish(e, r)
    \/ \E e \in EntryIds : PlatformSetup(e)
    \/ \E e \in EntryIds, unload_ok \in BOOLEAN : UnloadEntry(e, unload_ok)

SpecHass == Init /\ [][NextHass]_vars

-----------------------------------------------------------------------------
\* Claims about the poller

\* C1: at the moment an async_poll call returns, is_online equals the boolean
\* that this call's own load_all_information() returned.
C1_OnlineIsOwnResult ==
    justDone.kind = "returned" => online = justDone.result

\* A call returns TRUE right after another call had returned FALSE.
C1_Witness ==
    /\ justDone.kind = "returned"
    /\ justDone.result
    /\ justDone.prev = {FALSE}
    /\ online

\* C2: every callback registered before an async_poll call started and not
\* removed since is invoked exactly once by that call, on success and failure.
C2_StableInvokedOnce ==
    justDone.kind = "returned" =>
        \A c \in justDone.stable : justDone.invoked[c] = 1

\* A failed fetch whose call notified two callbacks registered before it.
C2_Witness ==
    /\ justDone.kind = "returned"
    /\ ~justDone.result
    /\ Cardinality(justDone.stable) >= 2
    /\ \A c \in justDone.stable : justDone.invoked[c] = 1

\* C3: async_poll never raises, whatever the fetch returned; a failed fetch
\* shows only as is_online being false.
C3_NeverRaises ==
    /\ justDone.kind # "raised"
    /\ (justDone.kind = "returned" /\ ~justDone.result) => ~online

\* A call whose fetch failed returns normally and takes the poller offline.
C3_Witness ==
    /\ justDone.kind = "returned"
    /\ ~justDone.result
    /\ justDone.prev = {TRUE}
    /\ ~online

\* C4: a callback whose latest registry call was remove_callback is invoked
\* by no async_poll call that finishes afterwards, hence by none that starts
\* afterwards.
C4_RemovedNeverInvoked ==
    justDone.kind # "none" =>
        \A c \in CbIds : regHist[c] = "removed" => justDone.invoked[c] = 0

\* A call that started after a removal notified another callback and not the
\* removed one.
C4_Witness ==
    /\ justDone.kind = "returned"
    /\ \E c \in CbIds :
          /\ regHist[c] = "removed"
          /\ c \notin justDone.stable
          /\ justDone.invoked[c] = 0
    /\ \E d \in justDone.stable : justDone.invoked[d] = 1

\* C5: register_callback is idempotent. Registering a registered callback
\* leaves the registry as it was, the registry holds a callback at most once,
\* an async_poll call invokes it at most once, and one remove_callback leaves
\* no entry for it.
C5_RegisterIdempotent ==
    /\ (justCall.kind = "register" /\ justCall.present) =>
           callbacks = justCall.before
    /\ \A c \in CbIds : callbacks[c] <= 1
    /\ justCall.kind = "remove" => callbacks[justCall.cb] = 0
    /\ justDone.kind = "returned" => \A c \in CbIds : justDone.invoked[c] <= 1

\* register_callback was just called for a callback that was registered.
C5_Witness ==
    /\ justCall.kind = "register"
    /\ justCall.present
    /\ callbacks[justCall.cb] = 1

\* C6: within one async_poll call the flag is written before the first
\* callback is invoked (every callback reads the value this call wrote), and
\* every callback registered when the notification began has been invoked
\* when the call returns.
C6_FlagBeforeCallbacks ==
    justDone.kind = "returned" =>
        /\ justDone.observed \subseteq {justDone.result}
        /\ \A c \in justDone.atNotify : justDone.invoked[c] >= 1

\* A call that changed the flag, and whose callbacks read the changed flag.
C6_Witness ==
    /\ justDone.kind = "returned"
    /\ justDone.prev = {~justDone.result}
    /\ justDone.atNotify # {}
    /\ justDone.observed = {justDone.result}

\* C7: overlapping async_poll calls neither block nor cancel each other. A
\* call can enter while others are suspended, and of k calls that were
\* suspended together, those that have finished have each invoked every
\* callback registered throughout: k invocations once all k have finished.
C7_OverlapIndependent ==
    /\ Len(inflight) < MaxTasks => ENABLED StartPoll
    /\ cohort.size > 0 =>
          \A c \in cohort.cbs :
              cohort.hits[c] = cohort.size - Cardinality(Members(inflight))

\* At least two calls were suspended together, all have finished, and a
\* callback registered throughout was invoked once per call.
C7_Witness ==
    /\ cohort.size >= 2
    /\ Members(inflight) = {}
    /\ \E c \in cohort.cbs : cohort.hits[c] = cohort.size

\* C8: once a call has finished, is_online is the result of the call that
\* finished last, whatever the earlier results and the order of the starts.
C8_OnlineIsLastResult ==
    \A r \in lastResult : online = r

\* The call that finished last was not the one that started first, an earlier
\* call had succeeded, and the poller is offline.
C8_Witness ==
    /\ justDone.kind = "returned"
    /\ justDone.ooo
    /\ justDone.prev = {TRUE}
    /\ ~justDone.result
    /\ ~online

\* C9: register_callback and remove_callback may be called from inside a
\* callback during the notification: async_poll still returns normally and
\* every other callback registered when the notification began is invoked.
C9_ReentrantSafe ==
    justDone.kind # "none" =>
        /\ justDone.kind = "returned"
        /\ \A c \in justDone.atNotify \ justDone.removed :
              justDone.invoked[c] >= 1

-----------------------------------------------------------------------------
\* Claims about config entries and views

ViewsOf(p, k) == {v \in views : v.poller = p /\ v.key = k}

\* C10: after any sequence of set-ups and unloads there is at most one Sensor
\* View for each (device, sensor key) pair: setting up a second config entry
\* builds no further view for the device of an earlier entry.
C10_OneViewPerDeviceAndKey ==
    \A p \in EntryIds, k \in SensorKeys : Cardinality(ViewsOf(p, k)) <= 1

\* C17: for every device type, the platform set-up of a config entry creates
\* the device entity and a status sensor (which publishes the device's status
\* text) for the entry's device.
C17_DeviceAndStatusSensor ==
    \A e \in EntryIds :
        entryPhase[e] = "loaded" =>
            /\ \E v \in views : v.poller = e /\ v.key = "machine"
            /\ \E v \in views : v.poller = e /\ v.key = "status"

\* C18: for a dryer the platform set-up creates the device entity and the
\* program, program-end, total-power and average-power sensors.
C18_DryerSensors ==
    \A e \in EntryIds :
        (entryPhase[e] = "loaded" /\ devType[e] = "dryer") =>
            \A k \in {"machine", "program", "program_end",
                       "total_power_consumption", "avg_power_consumption"} :
                \E v \in views : v.poller = e /\ v.key = k

\* C19: two views constructed for the same device type, UUID and key have the
\* same entity_id and the same unique_id, whichever construction call made
\* them; views of one device with different keys, the Device View included,
\* have different unique_ids.
C19_IdentifiersDeterministic ==
    \A uuid \in {Uuid(p) : p \in EntryIds} :
        \A ofDevice \in {{v \in views : Uuid(v.poller) = uuid}} :
            \A v, w \in ofDevice :
                IF v.key = w.key
                THEN v.type = w.type =>
                        v.entity_id = w.entity_id /\ v.unique_id = w.unique_id
                ELSE v.unique_id # w.unique_id

\* Two platform set-ups have each constructed the sensors of one washing
\* machine: two views of one key with the same identifiers, and the Device
\* View with a unique_id of its own.
C19_Witness ==
    \E v, w, m \in views :
        /\ v.by # w.by
        /\ v.poller = w.poller /\ v.type = w.type /\ v.key = w.key
        /\ v.key = "program"
        /\ v.entity_id = w.entity_id /\ v.unique_id = w.unique_id
        /\ m.poller = v.poller /\ m.key = "machine"
        /\ m.unique_id # v.unique_id

\* C29: hass.data[DOMAIN] holds the poller of exactly the entries whose
\* set-up has finished and that were not unloaded with success since. A
\* set-up that finishes stores the poller whether its first poll succeeded or
\* failed, and a poller leaves only by an unload of its entry that succeeded.
C29_RegistryIsEntriesSetUp ==
    [][/\ hassData' = {e \in EntryIds : entryPhase'[e] \in {"stored", "loaded"}}
       /\ \A e \in EntryIds :
             /\ (entryPhase[e] = "polling" /\ entryPhase'[e] # "polling") =>
                    (entryPhase'[e] = "stored" /\ e \in hassData')
             /\ (e \in hassData /\ e \notin hassData') =>
                    (entryPhase[e] = "loaded" /\ entryPhase'[e] = "absent")]_vars

\* An entry whose first poll failed is set up and its poller stored, while
\* another entry has been set up, unloaded with success and is gone.
C29_Witness ==
    \E e, f \in EntryIds :
        /\ entryPhase[e] = "loaded" /\ ~entryOnline[e] /\ e \in hassData
        /\ entryPhase[f] = "absent" /\ f \notin hassData
        /\ \E v \in views : v.poller = f

-----------------------------------------------------------------------------
\* Claims about the Sensor Views of one poller. A view is named by its
\* callback: view c registers and removes callback c.

\* C11: after any sequence of activations and deactivations of a view, its
\* callback is in the poller's registry exactly when the latest lifecycle call
\* was an activation; an async_poll call that returns has invoked every active
\* view once and no other view.
C11_RegisteredIffActive ==
    /\ \A c \in CbIds : callbacks[c] >= 1 <=> regHist[c] = "registered"
    /\ justDone.kind # "none" =>
           \A c \in CbIds :
               justDone.invoked[c] = IF regHist[c] = "registered" THEN 1 ELSE 0

\* A refresh returns while one view is active and another, activated earlier,
\* has been deactivated: the first was notified, the second was not.
C11_Witness ==
    /\ justDone.kind = "returned"
    /\ \E c, d \in CbIds :
          /\ regHist[c] = "registered" /\ callbacks[c] = 1
          /\ justDone.invoked[c] = 1
          /\ regHist[d] = "removed" /\ callbacks[d] = 0
          /\ justDone.invoked[d] = 0
\* C12: in every reachable state the availability of every view, the Device
\* View included, equals the poller's online flag.
C12_AvailableIsOnline ==
    \A v \in CbIds : Available(v) = online

\* A refresh has just taken the poller offline while a view is active, and the
\* view is unavailable.
C12_Witness ==
    /\ justDone.kind = "returned"
    /\ justDone.prev = {TRUE}
    /\ ~online
    /\ \E v \in CbIds : callbacks[v] = 1 /\ ~Available(v)
\* C13: the Device View's async_update invokes async_poll and returns only
\* when that call has returned: the flag holds the call's result and every
\* callback registered at the notification has been invoked.
C13_UpdateAwaitsRefresh ==
    justDone.update = "returned" =>
        /\ justDone.kind = "returned"
        /\ online = justDone.result
        /\ \A c \in justDone.atNotify : justDone.invoked[c] >= 1

\* An async_update returns from a refresh that changed the flag and notified
\* a view.
C13_Witness ==
    /\ justDone.update = "returned"
    /\ justDone.prev = {~justDone.result}
    /\ \E c \in justDone.atNotify : justDone.invoked[c] = 1
\* C20: a refresh whose fetch does not return has no effect. In every step in
\* which no fetch returns (no suspended call leaves its await) no async_poll
\* call returns or raises, the online flag keeps its value and no callback is
\* invoked; nothing but the return of its fetch takes a call out of its
\* await, so a call whose fetch never returns stays suspended for ever.
C20_PendingFetchNoEffect ==
    [][Len(inflight') >= Len(inflight) =>
          /\ online' = online
          /\ justDone'.kind = "none"
          /\ justDone'.invoked = NoInvocations]_vars

\* A call is suspended at its fetch while the poller is online and a view is
\* registered, and the host has just made a registry call.
C20_Witness ==
    /\ inflight # <<>>
    /\ online
    /\ inflight[1].stable # {}
    /\ justCall.kind # "none"
-----------------------------------------------------------------------------
\* Claims about the states the views publish

\* C14: a view whose raw device attribute is the empty string publishes the
\* placeholder "-", never the empty string.
C14_EmptyShownAsPlaceholder ==
    \A k \in WashingMachineKeys :
        Attribute(k, device) = Text("") =>
            shown[k] = Text("-") /\ shown[k] # Text("")

\* C15: the Device View publishes "active" when the device's active flag is
\* true and "inactive" when it is false, and nothing else.
C15_ActiveOrInactive ==
    /\ shown["machine"] = Text(IF device.is_active THEN "active" ELSE "inactive")
    /\ shown["machine"] \in {Text("active"), Text("inactive")}

\* A refresh found the machine inactive, and the Device View says so.
C15_Witness ==
    /\ ~device.is_active
    /\ shown["machine"] = Text("inactive")

\* C16, as stated: after a refresh every sensor of the washing machine
\* publishes its own attribute unmodified, the end of the program as the two
\* digits of its hour, a colon and the two digits of its minute.
C16_OwnFieldUnmodified ==
    \A k \in WashingMachineKeys :
        IF k = "program_end"
        THEN \E h1 \in 0..2, h2 \in 0..9, m1 \in 0..5, m2 \in 0..9 :
                /\ 10 * h1 + h2 = device.date_time_end.hour
                /\ 10 * m1 + m2 = device.date_time_end.minute
                /\ shown[k] = TimeText(h1, h2, m1, m2)
        ELSE shown[k] = Attribute(k, device)

\* C16, amended: after a refresh every sensor of the washing machine
\* publishes its own attribute and no other, unmodified but for the
\* placeholder: the program sensor publishes "-" for an empty program name,
\* and the program-end sensor publishes the end as HH:MM while the machine is
\* active and "-" while it is not.
C16_OwnFieldOrPlaceholder ==
    \A k \in WashingMachineKeys :
        CASE k = "program" /\ device.program = "" -> shown[k] = Text("-")
          [] k = "program_end" /\ ~device.is_active -> shown[k] = Text("-")
          [] k = "program_end" /\ device.is_active ->
                \E h1 \in 0..2, h2 \in 0..9, m1 \in 0..5, m2 \in 0..9 :
                    /\ 10 * h1 + h2 = device.date_time_end.hour
                    /\ 10 * m1 + m2 = device.date_time_end.minute
                    /\ shown[k] = TimeText(h1, h2, m1, m2)
          [] OTHER -> shown[k] = Attribute(k, device)

\* A refresh found an active machine with no program name, new consumptions
\* and a program ending at 23:05.
C16_Witness ==
    /\ device.is_active
    /\ device.program = ""
    /\ shown["program"] = Text("-")
    /\ device.date_time_end = [hour |-> 23, minute |-> 5]
    /\ shown["program_end"] = TimeText(2, 3, 0, 5)
    /\ device.consumption.water_total = 30011
    /\ shown["total_water_consumption"] = Number(30011)
    /\ shown["avg_water_consumption"] = Number(556)
-----------------------------------------------------------------------------
\* Claims about the config flow

\* C21: when load_device_information() fails, the user step shows the form
\* again with errors {base: invalid_auth} if the device's error is an
\* authentication problem and {base: cannot_connect} otherwise, and creates
\* no config entry.
C21_LoadFailureShowsForm ==
    [][flowResult'.load \in {"auth", "conn"} =>
          /\ flowResult'.type = "form"
          /\ flowResult'.errors =
                 {<<"base", IF flowResult'.load = "auth" THEN "invalid_auth"
                            ELSE "cannot_connect">>}
          /\ configEntries' = configEntries]_vars

\* With an entry already created, a device refused the credentials and the
\* form came back with invalid_auth.
C21_Witness ==
    /\ flowResult.load = "auth"
    /\ flowResult.type = "form"
    /\ flowResult.errors = {<<"base", "invalid_auth">>}
    /\ Len(configEntries) = 1

\* C22: a submitted host of fewer than 3 characters is rejected before any
\* connection to a device is attempted: the form is shown again with
\* cannot_connect on the host field and nothing on base, and no config entry
\* is created.
C22_ShortHostRejected ==
    [][(flowResult'.submitted /\ Len(Get(flowResult'.input, "host")) < 3) =>
          /\ flowResult'.connects = 0
          /\ flowResult'.type = "form"
          /\ flowResult'.errors = {<<"host", "cannot_connect">>}
          /\ configEntries' = configEntries]_vars

\* The host "e" was submitted and the form came back without a connection.
C22_Witness ==
    /\ flowResult.submitted
    /\ Get(flowResult.input, "host") = "e"
    /\ flowResult.type = "form"
    /\ flowResult.connects = 0
    /\ flowResult.errors = {<<"host", "cannot_connect">>}

\* C23: when load_device_information() succeeds, the user step creates
\* exactly one config entry; its title is the device name and its data is
\* the submitted input with the detected device type added.
C23_SuccessCreatesEntry ==
    [][flowResult'.load = "ok" =>
          /\ flowResult'.type = "create_entry"
          /\ flowResult'.title = flowResult'.device_name
          /\ flowResult'.data =
                 flowResult'.input
                    \cup {<<"DEVICE_TYPE_CONF", flowResult'.device_type>>}
          /\ configEntries' =
                 Append(configEntries, [title |-> flowResult'.title,
                                        data |-> flowResult'.data])]_vars

\* A second entry was created, for a washing machine reached with
\* credentials.
C23_Witness ==
    /\ flowResult.type = "create_entry"
    /\ flowResult.title = "MockDevice Name"
    /\ <<"DEVICE_TYPE_CONF", "washing_machine">> \in flowResult.data
    /\ <<"username", "test-username">> \in flowResult.data
    /\ Len(configEntries) = 2
    /\ configEntries[2].data = flowResult.data
-----------------------------------------------------------------------------
\* Further claims about the poller

\* C24: every callback a refresh invokes reads, as is_online, the fetch
\* result of that refresh, also when refreshes overlap; from the flag write
\* to the end of the fan-out nothing else runs: when the call returns the
\* flag is still its result and the registry is the one the fan-out began
\* with.
C24_FanOutSeesOwnResult ==
    justDone.kind # "none" =>
        /\ \A seen \in justDone.observed : seen = justDone.result
        /\ online = justDone.result
        /\ Entries(callbacks) = justDone.atNotify

\* Of two overlapping refreshes the one started later finishes first, with a
\* result other than the flag held; its callbacks read its result while the
\* other refresh is still suspended.
C24_Witness ==
    /\ justDone.kind = "returned"
    /\ justDone.ooo
    /\ inflight # <<>>
    /\ justDone.prev = {~justDone.result}
    /\ justDone.observed = {justDone.result}
    /\ \E c \in CbIds : justDone.invoked[c] = 1
\* C25: from the construction of the poller until the first fetch has
\* returned, is_online is false and every view is unavailable, exactly as
\* when the fetch that returned last had failed.
C25_OfflineUntilFirstFetch ==
    lastResult # {TRUE} =>
        /\ ~IsOnline
        /\ \A v \in CbIds : ~Available(v)

\* No fetch has returned yet: the first refresh is suspended at its fetch, a
\* view is registered, and it is unavailable.
C25_Witness ==
    /\ lastResult = {}
    /\ inflight # <<>>
    /\ \E v \in CbIds : callbacks[v] = 1 /\ ~Available(v)
\* C26: remove_callback for a callback that is not in the registry is a
\* no-op: it does not raise, and the registry, the online flag and the device
\* are as they were.
C26_RemoveAbsentIsNoOp ==
    [][(justCall'.kind = "remove" /\ callbacks[justCall'.cb] = 0) =>
          /\ ~justCall'.raised
          /\ callbacks' = callbacks
          /\ online' = online
          /\ device' = device]_vars

\* remove_callback was called for a callback that was not registered, while
\* the poller was online and held another callback.
C26_Witness ==
    /\ justCall.kind = "remove"
    /\ justCall.before[justCall.cb] = 0
    /\ ~justCall.raised
    /\ online
    /\ \E c \in CbIds : callbacks[c] = 1
\* C27: only a refresh changes the online flag. register_callback,
\* remove_callback and every read of a view leave the flag, the hostname, the
\* device reference and the device as they were; a read leaves the registry
\* as it was, and so does a refresh (its callbacks make no registry call).
C27_OnlyRefreshWritesFlag ==
    [][/\ justCall'.kind # "none" =>
             /\ online' = online
             /\ pollerRefs' = pollerRefs
             /\ device' = device
       /\ justCall'.kind = "read" => callbacks' = callbacks
       /\ justDone'.kind # "none" =>
             /\ callbacks' = callbacks
             /\ pollerRefs' = pollerRefs
       /\ online' # online => justDone'.kind # "none"]_vars

\* A view is read while the poller is online, holds a callback and has a
\* refresh suspended.
C27_Witness ==
    /\ justCall.kind = "read"
    /\ online
    /\ inflight # <<>>
    /\ callbacks[justCall.cb] = 1
-----------------------------------------------------------------------------
\* Claims about the command-line cover

\* A cover whose updates parse as integers, fail or print nothing, and whose
\* position stays where it was without a state command.
CoverTypeOK ==
    /\ cover.state \in {PyNone} \cup {PyInt(n) : n \in -5..100}
    /\ IsClosed \in {PyNone, PyBool(TRUE), PyBool(FALSE)}
    /\ ~Truthy(cover.command_state) => cover.state = PyNone

\* C30: with a state command configured, every async_update completes
\* normally and leaves the position equal to the integer value of the
\* command's (optionally template-rendered) output when that output is not
\* empty, and None when the command failed or printed nothing; with no state
\* command the position is what it was before the call.
C30_UpdateCompletesWithPosition ==
    coverDone.kind = "update" =>
        IF Truthy(cover.command_state)
        THEN /\ coverDone.raised = "none"
             /\ IF coverDone.result = PyNone \/ ~Truthy(coverDone.payload)
                THEN CurrentCoverPosition = PyNone
                ELSE CurrentCoverPosition = IntOf(coverDone.payload.str).value
        ELSE CurrentCoverPosition = coverDone.before

\* The part of C30 that holds: an update that raises nothing leaves the
\* integer value of a non-empty payload, and None for an empty one; without
\* a state command the position is not touched.
C30_PositionWhenUpdateReturns ==
    (coverDone.kind = "update" /\ coverDone.raised = "none") =>
        IF Truthy(cover.command_state)
        THEN IF Truthy(coverDone.payload)
             THEN CurrentCoverPosition = IntOf(coverDone.payload.str).value
             ELSE CurrentCoverPosition = PyNone
        ELSE CurrentCoverPosition = coverDone.before

\* An update of a cover without template whose state command failed: str(None)
\* is the payload, int("None") raises.
C30_FailedCommandRaises ==
    /\ coverDone.kind = "update"
    /\ Truthy(cover.command_state) /\ ~cover.value_template
    /\ coverDone.result = PyNone
    /\ coverDone.payload = PyStr(<<"N", "o", "n", "e">>)
    /\ coverDone.raised = "ValueError"
    /\ CurrentCoverPosition = PyNone

====
